---- MODULE Spec2Model ----
(***************************************************************************)
(* A model of src/app.js: an express application with seven routes over    *)
(* two tables (users, posts) reached through the Prisma client.            *)
(*                                                                         *)
(* A request is received by Receive, which runs the route's middleware     *)
(* chain (the express-validator rules, then checkForErrors) and either     *)
(* answers 400 or enters the route handler.  A handler advances one ORM    *)
(* call (one await) at a time; every ORM call either resolves or rejects,  *)
(* and the code after it up to the next await (or the response) belongs to *)
(* the same step.  Handlers of different requests interleave at awaits.    *)
(*                                                                         *)
(* JSON values: a body is a record of its top-level keys.  A JSON string   *)
(* that shares a key with JSON objects (the "error" key) is wrapped by     *)
(* Str so that every value of a key has one shape.                         *)
(***************************************************************************)
EXTENDS Naturals, FiniteSets, Sequences

\* ------------------------------------------------------------- bounds
\* Users ever created (uuids are 1..MaxUuid, in creation order).
MaxUuid == 2
\* Posts ever created.
MaxPosts == 1
\* Requests in flight at once.
MaxInFlight == 2

Uuids == 1..MaxUuid
Slots == 1..MaxInFlight

\* ------------------------------------------------------------- values
\* A body field that the request does not carry (undefined in the handler).
Absent == "<absent>"
\* A stored role that is not set.
Unset == "<unset>"
\* The role enumeration of the schema.
RoleEnum == {"USER", "ADMIN", "SUPERUSER"}

Str(s) == [str |-> s]
SomethingWentWrong == Str("Something went wrong")
\* The error object a rejected ORM call throws, as JSON serialises it.
OrmError(kind) == [prisma |-> kind]

\* Inputs of the requests.  Bodies that pass the validation rules (two
\* emails, with and without a role, and one with the empty role), and bodies
\* that fail them in every combination of offending fields.
PassingUserBodies ==
    {[name |-> "ann", email |-> e, role |-> ro] :
        e \in {"a@x.io", "b@x.io"}, ro \in {Absent, "ADMIN"}}
    \cup {[name |-> "ann", email |-> "a@x.io", role |-> ""]}
FailingUserBodies ==
    ({[name |-> n, email |-> e, role |-> ro] :
        n \in {"", "ann"}, e \in {"", "a@x.io"}, ro \in {"ADMIN", "GUEST"}}
     \ {[name |-> "ann", email |-> "a@x.io", role |-> "ADMIN"]})
    \cup {[name |-> "ann", email |-> "not-an-email", role |-> Absent]}
UserBodies == PassingUserBodies \cup FailingUserBodies
TextInputs == {"", "text"}

R_PostUsers == "POST /users"
R_GetUsers == "GET /users"
R_GetUser == "GET /users/:uuid"
R_PutUser == "PUT /users/:uuid"
R_DeleteUser == "DELETE /users/:uuid"
R_PostPosts == "POST /posts"
R_GetPosts == "GET /posts"

Req(route, uuid, name, email, role, userUuid, title, body) ==
    [route |-> route, uuid |-> uuid, name |-> name, email |-> email,
     role |-> role, userUuid |-> userUuid, title |-> title, body |-> body]

NoReq == Req("none", 0, Absent, Absent, Absent, 0, Absent, Absent)

Requests ==
    {Req(R_PostUsers, 0, b.name, b.email, b.role, 0, Absent, Absent) :
        b \in UserBodies}
    \cup {Req(R_PutUser, u, b.name, b.email, b.role, 0, Absent, Absent) :
        u \in Uuids, b \in PassingUserBodies}
    \cup {Req(R_PutUser, 1, b.name, b.email, b.role, 0, Absent, Absent) :
        b \in FailingUserBodies}
    \cup {Req(rt, u, Absent, Absent, Absent, 0, Absent, Absent) :
        rt \in {R_GetUser, R_DeleteUser}, u \in Uuids}
    \cup {Req(rt, 0, Absent, Absent, Absent, 0, Absent, Absent) :
        rt \in {R_GetUsers, R_GetPosts}}
    \cup {Req(R_PostPosts, 0, Absent, Absent, Absent, u, "text", "text") :
        u \in Uuids}
    \cup {Req(R_PostPosts, 0, Absent, Absent, Absent, 1, t, b) :
        t \in TextInputs, b \in TextInputs}

\* ------------------------------------------------------------- state
VARIABLES
    users,      \* the users table: records [uuid, name, email, role]
    posts,      \* the posts table: records [id, title, body, userUuid]
    created,    \* users ever created (the next uuid is created + 1)
    slots,      \* the requests in flight: [pc, req, headersSent] per slot
    sent,       \* the response the latest step sent (NoResponse: none)
    persisted   \* per uuid, the record the last successful POST/PUT returned,
                \* or Deleted after a successful DELETE

vars == <<users, posts, created, slots, sent, persisted>>

Idle == [pc |-> "idle", req |-> NoReq, headersSent |-> FALSE]

NoResponse ==
    [at |-> "none", status |-> 0, body |-> [none |-> TRUE], threw |-> "none",
     second |-> FALSE, req |-> NoReq]

Unknown == [state |-> "unknown"]
Deleted == [state |-> "deleted"]

Init ==
    /\ users = {}
    /\ posts = {}
    /\ created = 0
    /\ slots = [r \in Slots |-> Idle]
    /\ sent = NoResponse
    /\ persisted = [u \in Uuids |-> Unknown]


\* ------------------------------------------------------------- validation
\* express-validator hands every validator the field's value as a string;
\* a field the body does not carry (undefined) becomes the empty string.
ToString(v) == IF v = Absent THEN "" ELSE v

IsLengthMin1(v) == ToString(v) # ""

\* isEmail, on the inputs of the model.
IsEmail(v) == ToString(v) \in {"a@x.io", "b@x.io"}

\* isIn compares the value's string with the string of every option; the
\* option undefined counts as "", so that a role that is absent and a role
\* that is the empty string both pass.
IsIn(v, options) == ToString(v) \in {ToString(o) : o \in options}

\* The message of the first rule of the chain on field f that q fails
\* ("" when it passes them all).
userValidationRules(q, f) ==
    CASE f = "email" ->
            IF ~IsLengthMin1(q.email) THEN "email can't be empty"
            ELSE IF ~IsEmail(q.email) THEN "Must be a valid email"
            ELSE ""
      [] f = "name" ->
            IF ~IsLengthMin1(q.name) THEN "name can't be empty" ELSE ""
      [] f = "role" ->
            IF ~IsIn(q.role, RoleEnum \cup {Absent})
            THEN "Invalid Role, must be one of ['USER', 'ADMIN', 'SUPERUSER', undefined]"
            ELSE ""

postValidationRules(q, f) ==
    CASE f = "title" ->
            IF ~IsLengthMin1(q.title) THEN "title can't be empty" ELSE ""
      [] f = "body" ->
            IF ~IsLengthMin1(q.body) THEN "post body can't be empty" ELSE ""

UserRoutes == {R_PostUsers, R_PutUser}
ValidatedRoutes == UserRoutes \cup {R_PostPosts}

\* errors.mapped() with the formatter err => err.msg: field -> first message.
simpleValidationResults(q) ==
    IF q.route \in UserRoutes
    THEN LET bad == {f \in {"email", "name", "role"} : userValidationRules(q, f) # ""}
         IN  [f \in bad |-> userValidationRules(q, f)]
    ELSE LET bad == {f \in {"title", "body"} : postValidationRules(q, f) # ""}
         IN  [f \in bad |-> postValidationRules(q, f)]

\* ------------------------------------------------------------- responses
\* res.status(status).json(body) by the request in slot r, with what the
\* response does not show: the place it was sent from (at), what was thrown
\* (threw: "validation", "duplicate", "notfound", or the reason the ORM call
\* rejected), whether the request had been answered before (second), and the
\* request itself (req) where the slot no longer tells it: when checkForErrors
\* rejected it and when its update succeeded.
Send(r, at, status, body, threw, q) ==
    [at |-> at, status |-> status, body |-> body, threw |-> threw,
     second |-> slots[r].headersSent, req |-> q]

\* The handler's first await.
FirstPc(route) ==
    CASE route = R_PostUsers -> "post_users_find"
      [] route = R_GetUsers -> "get_users"
      [] route = R_PutUser -> "put_users_find"
      [] route = R_DeleteUser -> "delete_user"
      [] route = R_GetUser -> "get_user"
      [] route = R_PostPosts -> "post_posts"
      [] route = R_GetPosts -> "get_posts"

\* next(): the route handler starts and runs to its first await.
EnterHandler(r, q) ==
    /\ slots' = [slots EXCEPT ![r] = [pc |-> FirstPc(q.route), req |-> q,
                                      headersSent |-> FALSE]]
    /\ sent' = NoResponse

\* checkForErrors without the return: it answers 400 and calls next() too.
checkForErrors_NoReturn(r, q) ==
    LET errors == simpleValidationResults(q)
    IN  IF DOMAIN errors # {}
        THEN /\ sent' = Send(r, "checkForErrors", 400, errors, "validation", q)
             /\ slots' = [slots EXCEPT ![r] = [pc |-> FirstPc(q.route), req |-> q,
                                               headersSent |-> TRUE]]
        ELSE EnterHandler(r, q)

checkForErrors(r, q) ==
    LET errors == simpleValidationResults(q)
    IN  IF DOMAIN errors # {}
        THEN /\ sent' = Send(r, "checkForErrors", 400, errors, "validation", q)
             /\ slots' = [slots EXCEPT ![r] = Idle]
        ELSE EnterHandler(r, q)

InFlight(route) == Cardinality({r \in Slots : slots[r].req.route = route})

\* A request arrives, takes the first free slot and passes through the
\* route's middleware chain.
Receive(r, q) ==
    /\ slots[r].pc = "idle"
    /\ \A s \in Slots : s < r => slots[s].pc # "idle"
    /\ q.route = R_PostUsers => created + InFlight(R_PostUsers) < MaxUuid
    /\ q.route = R_PostPosts => Cardinality(posts) + InFlight(R_PostPosts) < MaxPosts
    /\ IF q.route \in ValidatedRoutes
       THEN checkForErrors(r, q)
       ELSE EnterHandler(r, q)
    /\ UNCHANGED <<users, posts, created, persisted>>


\* ------------------------------------------------------------- the ORM
\* Every ORM call takes "up": whether the database answers the call at all.
\* A call made while it does not rejects with "Unavailable".

\* prisma.user.findFirst({ where }): the matching users (at most one).
UserByEmail(email) == {u \in users : u.email = email}
UserByUuid(uuid) == {u \in users : u.uuid = uuid}

\* The schema's constraints on a user row: the role is of the enumeration
\* (or not given) and no other row has the email.
RoleAccepted(role) == role \in RoleEnum \cup {Absent}
EmailFree(email, self) == \A u \in users : u.email = email => u.uuid = self

\* Why prisma.user.create({ data }) rejects ("" when it resolves).
UserCreateError(q, up) ==
    IF ~up THEN "Unavailable"
    ELSE IF ~RoleAccepted(q.role) THEN "InvalidEnumValue"
    ELSE IF ~EmailFree(q.email, 0) THEN "UniqueConstraint"
    ELSE ""

\* The row prisma.user.create inserts: a role that is not given is unset.
NewUser(q) ==
    [uuid |-> created + 1, name |-> q.name, email |-> q.email,
     role |-> IF q.role = Absent THEN Unset ELSE q.role]

\* Why prisma.user.update({ where: { uuid }, data }) rejects.
UserUpdateError(q, up) ==
    IF ~up THEN "Unavailable"
    ELSE IF UserByUuid(q.uuid) = {} THEN "RecordNotFound"
    ELSE IF ~RoleAccepted(q.role) THEN "InvalidEnumValue"
    ELSE IF ~EmailFree(q.email, q.uuid) THEN "UniqueConstraint"
    ELSE ""

\* The schema's post-to-user relation: every post has its user, so that a
\* user who has posts cannot be deleted.
RelationRequired(uuid) == \E p \in posts : p.userUuid = uuid

\* Why prisma.user.delete({ where: { uuid } }) rejects.
UserDeleteError(q, up) ==
    IF ~up THEN "Unavailable"
    ELSE IF UserByUuid(q.uuid) = {} THEN "RecordNotFound"
    ELSE IF RelationRequired(q.uuid) THEN "RelationViolation"
    ELSE ""

\* Why prisma.post.create({ data: { ..., user: { connect } } }) rejects.
PostCreateError(q, up) ==
    IF ~up THEN "Unavailable"
    ELSE IF UserByUuid(q.userUuid) = {} THEN "RecordNotFound"
    ELSE ""

\* ------------------------------------------------------------- handlers
\* return res.status(status).json(body): the response, and the handler ends.
Respond(r, at, status, body, threw) ==
    /\ sent' = Send(r, at, status, body, threw,
                    IF at = "put_users_update" /\ status = 200
                    THEN slots[r].req ELSE NoReq)
    /\ slots' = [slots EXCEPT ![r] = Idle]

Await(r, pc) ==
    /\ slots' = [slots EXCEPT ![r].pc = pc]
    /\ sent' = NoResponse

\* PostUsersCatch answering 500, as the other routes' catch blocks do.
PostUsersCatch_Status500(r, at, error, threw) ==
    Respond(r, at, 500, [success |-> FALSE, error |-> error], threw)

\* POST /users, catch (error): 400 with the thrown value.
PostUsersCatch(r, at, error, threw) ==
    Respond(r, at, 400, [success |-> FALSE, error |-> error], threw)

\* POST /users, to the first await and its continuation: findFirst by email.
PostUsersFind(r, up) ==
    LET q == slots[r].req
    IN  /\ slots[r].pc = "post_users_find"
        /\ IF ~up
           THEN PostUsersCatch(r, "post_users_find", OrmError("Unavailable"), "Unavailable")
           ELSE IF UserByEmail(q.email) # {}
           THEN PostUsersCatch(r, "post_users_find",
                               [email |-> "email already exists"], "duplicate")
           ELSE Await(r, "post_users_create")
        /\ UNCHANGED <<users, posts, created, persisted>>

\* POST /users, the second await: create, then the response.
PostUsersCreate(r, up) ==
    LET q == slots[r].req
        e == UserCreateError(q, up)
        user == NewUser(q)
    IN  /\ slots[r].pc = "post_users_create"
        /\ IF e # ""
           THEN /\ PostUsersCatch(r, "post_users_create", OrmError(e), e)
                /\ UNCHANGED <<users, created, persisted>>
           ELSE /\ users' = users \cup {user}
                /\ created' = created + 1
                /\ Respond(r, "post_users_create", 200,
                           [success |-> TRUE, data |-> user], "none")
                /\ persisted' = [persisted EXCEPT
                                    ![sent'.body.data.uuid] = sent'.body.data]
        /\ UNCHANGED posts


\* orderBy createdAt desc: uuids are handed out in creation order.
RECURSIVE NewestFirst(_)
NewestFirst(S) ==
    IF S = {} THEN <<>>
    ELSE LET m == CHOOSE x \in S : \A y \in S : y.uuid <= x.uuid
         IN  <<m>> \o NewestFirst(S \ {m})

RECURSIVE PostsNewestFirst(_)
PostsNewestFirst(S) ==
    IF S = {} THEN <<>>
    ELSE LET m == CHOOSE x \in S : \A y \in S : y.id <= x.id
         IN  <<m>> \o PostsNewestFirst(S \ {m})

\* select: { uuid, name, role, posts: { select: { title, body } } }
SelectUser(u) ==
    [uuid |-> u.uuid, name |-> u.name, role |-> u.role,
     posts |-> {[title |-> p.title, body |-> p.body] :
                   p \in {x \in posts : x.userUuid = u.uuid}}]

\* GET /users
GetUsers(r, up) ==
    /\ slots[r].pc = "get_users"
    /\ IF ~up
       THEN Respond(r, "get_users", 500,
                    [success |-> FALSE, error |-> SomethingWentWrong], "Unavailable")
       ELSE LET list == NewestFirst(users)
            IN  Respond(r, "get_users", 200,
                        [success |-> TRUE,
                         data |-> [list |-> [i \in DOMAIN list |-> SelectUser(list[i])]]],
                        "none")
    /\ UNCHANGED <<users, posts, created, persisted>>

\* PUT /users/:uuid, catch (error): 404 with the thrown value.
PutUsersCatch(r, at, error, threw) ==
    Respond(r, at, 404, [success |-> FALSE, error |-> error], threw)

\* PUT /users/:uuid, the first await: findFirst by uuid.
PutUsersFind(r, up) ==
    LET q == slots[r].req
    IN  /\ slots[r].pc = "put_users_find"
        /\ IF ~up
           THEN PutUsersCatch(r, "put_users_find", OrmError("Unavailable"), "Unavailable")
           ELSE IF UserByUuid(q.uuid) = {}
           THEN PutUsersCatch(r, "put_users_find",
                              [user |-> "user doesn't exists"], "notfound")
           ELSE Await(r, "put_users_update")
        /\ UNCHANGED <<users, posts, created, persisted>>

\* UserUpdateData with the email left out of data.
UserUpdateData_KeepsEmail(old, q) ==
    [old EXCEPT !.name = q.name,
                !.role = IF q.role = Absent THEN old.role ELSE q.role]

\* data: { name, email, role }: a field that is undefined is left as it is.
UserUpdateData(old, q) ==
    [old EXCEPT !.name = q.name, !.email = q.email,
                !.role = IF q.role = Absent THEN old.role ELSE q.role]

\* PutUsersUpdate calling upsert: a user that is gone is created again.
PutUsersUpdate_Upsert(r, up) ==
    LET q == slots[r].req
        gone == UserByUuid(q.uuid) = {}
        e == IF gone /\ up THEN UserCreateError(q, up) ELSE UserUpdateError(q, up)
    IN  /\ slots[r].pc = "put_users_update"
        /\ IF e # ""
           THEN /\ PutUsersCatch(r, "put_users_update", OrmError(e), e)
                /\ UNCHANGED <<users, persisted>>
           ELSE LET old == IF gone THEN [NewUser(q) EXCEPT !.uuid = q.uuid]
                           ELSE CHOOSE u \in users : u.uuid = q.uuid
                    user == UserUpdateData(old, q)
                IN  /\ users' = (users \ {old}) \cup {user}
                    /\ Respond(r, "put_users_update", 200,
                               [success |-> TRUE, data |-> user], "none")
                    /\ persisted' = [persisted EXCEPT
                                        ![q.uuid] = sent'.body.data]
        /\ UNCHANGED <<posts, created>>

\* PUT /users/:uuid, the second await: update, then the response.
PutUsersUpdate(r, up) ==
    LET q == slots[r].req
        e == UserUpdateError(q, up)
    IN  /\ slots[r].pc = "put_users_update"
        /\ IF e # ""
           THEN /\ PutUsersCatch(r, "put_users_update", OrmError(e), e)
                /\ UNCHANGED <<users, persisted>>
           ELSE LET old == CHOOSE u \in users : u.uuid = q.uuid
                    user == UserUpdateData(old, q)
                IN  /\ users' = (users \ {old}) \cup {user}
                    /\ Respond(r, "put_users_update", 200,
                               [success |-> TRUE, data |-> user], "none")
                    /\ persisted' = [persisted EXCEPT
                                        ![q.uuid] = sent'.body.data]
        /\ UNCHANGED <<posts, created>>

\* DELETE /users/:uuid
DeleteUser(r, up) ==
    LET q == slots[r].req
        e == UserDeleteError(q, up)
    IN  /\ slots[r].pc = "delete_user"
        /\ IF e # ""
           THEN /\ Respond(r, "delete_user", 500,
                           [success |-> FALSE, error |-> SomethingWentWrong], e)
                /\ UNCHANGED <<users, persisted>>
           ELSE /\ users' = users \ UserByUuid(q.uuid)
                /\ persisted' = [persisted EXCEPT ![q.uuid] = Deleted]
                /\ Respond(r, "delete_user", 200,
                           [success |-> TRUE, message |-> "User deleted"], "none")
        /\ UNCHANGED <<posts, created>>

\* GetUser without the check of findFirst's result: no user is answered as
\* a success with no data.
GetUser_NoCheck(r, up) ==
    LET q == slots[r].req
    IN  /\ slots[r].pc = "get_user"
        /\ IF ~up
           THEN Respond(r, "get_user", 404,
                        [success |-> FALSE, error |-> SomethingWentWrong], "Unavailable")
           ELSE IF UserByUuid(q.uuid) = {}
           THEN Respond(r, "get_user", 200,
                        [success |-> TRUE, data |-> [null |-> TRUE]], "none")
           ELSE Respond(r, "get_user", 200,
                        [success |-> TRUE,
                         data |-> CHOOSE u \in users : u.uuid = q.uuid], "none")
        /\ UNCHANGED <<users, posts, created, persisted>>

\* GET /users/:uuid
GetUser(r, up) ==
    LET q == slots[r].req
    IN  /\ slots[r].pc = "get_user"
        /\ IF ~up
           THEN Respond(r, "get_user", 404,
                        [success |-> FALSE, error |-> SomethingWentWrong], "Unavailable")
           ELSE IF UserByUuid(q.uuid) = {}
           THEN Respond(r, "get_user", 404,
                        [success |-> FALSE, error |-> SomethingWentWrong], "notfound")
           ELSE Respond(r, "get_user", 200,
                        [success |-> TRUE,
                         data |-> CHOOSE u \in users : u.uuid = q.uuid], "none")
        /\ UNCHANGED <<users, posts, created, persisted>>

\* PostPostsCatch swallowing the error: the failure is answered as a success.
PostPostsCatch_Swallows(r, error, threw) ==
    Respond(r, "post_posts", 200, [success |-> TRUE, data |-> [null |-> TRUE]], threw)

\* POST /posts, catch (error): 500 with the thrown value.
PostPostsCatch(r, error, threw) ==
    Respond(r, "post_posts", 500, [success |-> FALSE, error |-> error], threw)

\* POST /posts
PostPosts(r, up) ==
    LET q == slots[r].req
        e == PostCreateError(q, up)
        post == [id |-> Cardinality(posts) + 1, title |-> q.title,
                 body |-> q.body, userUuid |-> q.userUuid]
    IN  /\ slots[r].pc = "post_posts"
        /\ IF e # ""
           THEN /\ PostPostsCatch(r, OrmError(e), e)
                /\ UNCHANGED posts
           ELSE /\ posts' = posts \cup {post}
                /\ Respond(r, "post_posts", 200,
                           [success |-> TRUE, data |-> post], "none")
        /\ UNCHANGED <<users, created, persisted>>

\* include: { user: true }
IncludeUser(p) ==
    [id |-> p.id, title |-> p.title, body |-> p.body, userUuid |-> p.userUuid,
     user |-> CHOOSE u \in users : u.uuid = p.userUuid]

\* GET /posts
GetPosts(r, up) ==
    /\ slots[r].pc = "get_posts"
    /\ IF ~up
       THEN Respond(r, "get_posts", 500,
                    [success |-> FALSE, error |-> SomethingWentWrong], "Unavailable")
       ELSE LET list == PostsNewestFirst(posts)
            IN  Respond(r, "get_posts", 200,
                        [success |-> TRUE,
                         data |-> [list |-> [i \in DOMAIN list |-> IncludeUser(list[i])]]],
                        "none")
    /\ UNCHANGED <<users, posts, created, persisted>>

\* ------------------------------------------------------------- the system
\* One step of the handler of the request in slot r.
Handle(r) ==
    \E up \in BOOLEAN :
        \/ PostUsersFind(r, up)
        \/ PostUsersCreate(r, up)
        \/ GetUsers(r, up)
        \/ PutUsersFind(r, up)
        \/ PutUsersUpdate(r, up)
        \/ DeleteUser(r, up)
        \/ GetUser(r, up)
        \/ PostPosts(r, up)
        \/ GetPosts(r, up)

Next ==
    \/ \E r \in Slots, q \in Requests : Receive(r, q)
    \/ \E r \in Slots : Handle(r)

Spec == Init /\ [][Next]_vars

\* The requests of the fair specification: for every route, one that passes
\* its middleware, and for every validated route one that does not.
LiveRequests ==
    {q \in Requests :
        /\ q.uuid \in {0, 1} /\ q.userUuid \in {0, 1}
        /\ q.email \in {Absent, "a@x.io", ""}
        /\ q.role \in {Absent, "GUEST"}
        /\ q.name \in {Absent, "ann"}
        /\ q.title = q.body}

NextLive ==
    \/ \E r \in Slots, q \in LiveRequests : Receive(r, q)
    \/ \E r \in Slots : Handle(r)

\* Every ORM call a handler awaits is eventually answered (it resolves or it
\* rejects), so that the handler's next step is eventually taken.
FairSpec ==
    Init /\ [][NextLive]_vars /\ \A r \in Slots : WF_vars(Handle(r))


\* ------------------------------------------------------------- properties
\* The handler of the request in slot r takes a step.
Stepped(r) == slots[r].pc # "idle" /\ slots'[r] # slots[r]

\* The handler of the request in slot r sends its response and ends.
Answered(r) == slots[r].pc # "idle" /\ slots'[r].pc = "idle"

Responded == sent.status # 0

\* C1: every response is an envelope: a boolean success together with one
\* of data, error, message.
C1_EveryResponseIsEnvelope ==
    Responded =>
        /\ "success" \in DOMAIN sent.body
        /\ sent.body.success \in BOOLEAN
        /\ DOMAIN sent.body \cap {"data", "error", "message"} # {}

\* The fields of a user body that the specification calls invalid: an email
\* that is empty or not email-shaped, an empty name, a role that is present and
\* not of the enumeration.
OffendingFields(q) ==
    {f \in {"email"} : q.email \in {Absent, ""} \/ ~IsEmail(q.email)}
    \cup {f \in {"name"} : q.name \in {Absent, ""}}
    \cup {f \in {"role"} : q.role # Absent /\ q.role \notin RoleEnum}

\* C2: a POST /users or PUT /users/:uuid whose body is invalid is answered
\* 400 by checkForErrors, with a message under each offending field, and
\* never enters the route handler.
C2_InvalidUserBodyRejected ==
    /\ \A r \in Slots :
          slots[r].req.route \in UserRoutes => OffendingFields(slots[r].req) = {}
    /\ (sent.at = "checkForErrors" /\ sent.req.route \in UserRoutes) =>
          /\ sent.status = 400
          /\ DOMAIN sent.body = OffendingFields(sent.req)

UniqueEmails == \A u, v \in users : u.email = v.email => u = v

\* C3: no two stored users share an email, and a step of a POST /users
\* handler taken while its email belongs to a stored user answers 400 and
\* creates no user (so of concurrent POSTs of one email at most one creates).
C3_DuplicateEmailRejected ==
    /\ []UniqueEmails
    /\ [][\A r \in Slots :
            (/\ Stepped(r)
             /\ slots[r].req.route = R_PostUsers
             /\ UserByEmail(slots[r].req.email) # {})
            => (/\ Answered(r)
                /\ sent'.status = 400
                /\ sent'.body.success = FALSE
                /\ users' = users)]_vars

\* C3 witness: of two concurrent POSTs of one email, the one that creates
\* second is rejected by the database and answered 400.
C3_RaceLoserAnswered400 ==
    /\ sent.at = "post_users_create"
    /\ sent.threw = "UniqueConstraint"
    /\ sent.status = 400

\* C4: a step of a GET /users/:uuid or PUT /users/:uuid handler taken while
\* no stored user has the uuid answers 404 with success false and leaves the
\* users and the posts as they were.
C4_UnknownUuidIs404 ==
    [][\A r \in Slots :
          (/\ Stepped(r)
           /\ slots[r].req.route \in {R_GetUser, R_PutUser}
           /\ UserByUuid(slots[r].req.uuid) = {})
          => (/\ Answered(r)
              /\ sent'.status = 404
              /\ sent'.body.success = FALSE
              /\ users' = users
              /\ posts' = posts)]_vars

\* C4 witness: a PUT found no user and was answered 404.
C4_PutOfUnknownUuid ==
    sent.at = "put_users_find" /\ sent.threw = "notfound" /\ sent.status = 404

\* A GET /users/:uuid whose query the database answered returns the record
\* the last successful POST or PUT of that uuid returned, and 404 once a
\* DELETE of it succeeded.
GetReturnsPersisted ==
    \A r \in Slots :
        (/\ Answered(r)
         /\ slots[r].pc = "get_user"
         /\ sent'.threw # "Unavailable")
        => LET u == slots[r].req.uuid
           IN  /\ persisted[u] = Deleted => sent'.status = 404
               /\ persisted[u] \notin {Unknown, Deleted} =>
                     /\ sent'.status = 200
                     /\ sent'.body.data = persisted[u]

\* The role a body asks for: none when it carries no role.
RoleOfBody(q) == IF q.role = Absent THEN Unset ELSE q.role

\* C5 as claimed: reads return the persisted record, and the record a
\* successful PUT returns has the name, email and role of the PUT body.
C5_RoundTripBodyRole ==
    /\ [][GetReturnsPersisted]_vars
    /\ [][\A r \in Slots :
            (Answered(r) /\ slots[r].pc = "put_users_update" /\ sent'.status = 200)
            => LET q == slots[r].req
                   d == sent'.body.data
               IN  /\ d.name = q.name
                   /\ d.email = q.email
                   /\ d.role = RoleOfBody(q)]_vars

\* C5 as amended: the record a successful PUT returns has the name and the
\* email of the PUT body, and its role when the body carries one; when it
\* carries none the record keeps the role the user had.
C5_RoundTrip ==
    /\ [][GetReturnsPersisted]_vars
    /\ [][\A r \in Slots :
            (Answered(r) /\ slots[r].pc = "put_users_update" /\ sent'.status = 200)
            => LET q == slots[r].req
                   d == sent'.body.data
                   old == CHOOSE u \in users : u.uuid = q.uuid
               IN  /\ d.name = q.name
                   /\ d.email = q.email
                   /\ d.role = IF q.role = Absent THEN old.role ELSE q.role
                   /\ d \in users']_vars

\* C5 witness: a PUT without a role succeeded on a user whose role is set,
\* and the record it returned keeps that role.
C5_PutWithoutRoleKeptRole ==
    /\ sent.at = "put_users_update"
    /\ sent.status = 200
    /\ sent.req.role = Absent
    /\ sent.body.data.role = "ADMIN"
    /\ sent.body.data \in users

\* C6: a 404 is sent only by a handler whose lookup of the uuid is answered
\* while no stored user has it; in particular not by a PUT whose user was
\* found and whose update the database rejects.
C6_NotFoundOnly ==
    [][\A r \in Slots :
          (Answered(r) /\ sent'.status = 404)
          => (/\ slots[r].pc \in {"get_user", "put_users_find"}
              /\ UserByUuid(slots[r].req.uuid) = {})]_vars

\* C7: a response with status 500 carries the fixed message as its error.
C7_OpaqueServerErrors ==
    sent.status = 500 =>
        "error" \in DOMAIN sent.body /\ sent.body.error = SomethingWentWrong

ReferentialIntegrity == \A p \in posts : UserByUuid(p.userUuid) # {}

\* C8: every stored post refers to a stored user, and a step of a POST /posts
\* handler taken while no stored user has its userUuid creates no post and
\* answers with an error.
C8_PostsReferToUsers ==
    /\ []ReferentialIntegrity
    /\ [][\A r \in Slots :
            (Stepped(r) /\ slots[r].pc = "post_posts"
             /\ UserByUuid(slots[r].req.userUuid) = {})
            => (/\ Answered(r)
                /\ posts' = posts
                /\ sent'.body.success = FALSE
                /\ "error" \in DOMAIN sent'.body)]_vars

\* C8 witness: a POST /posts naming no stored user was rejected (another
\* user is stored) and no post was created.
C8_PostOfUnknownUserRejected ==
    /\ sent.at = "post_posts"
    /\ sent.threw = "RecordNotFound"
    /\ sent.status = 500
    /\ users # {}
    /\ posts = {}

\* C9: a request in flight has not been answered, no response is a second
\* one, a handler's step answers exactly when the handler ends, and every
\* request in flight is eventually answered.
C9_ExactlyOneResponse ==
    /\ [](\A r \in Slots : slots[r].pc # "idle" => ~slots[r].headersSent)
    /\ [](~sent.second)
    /\ [][\A r \in Slots : Stepped(r) => (Answered(r) <=> sent'.status # 0)]_vars
    /\ \A r \in Slots :
          (slots[r].pc # "idle") ~> (slots[r].pc = "idle" /\ Responded)

\* C9 witness: a handler threw (a duplicate email) and the one response of
\* its request was sent from the catch block.
C9_AnsweredFromCatch ==
    /\ sent.threw = "duplicate"
    /\ sent.status = 400
    /\ ~sent.second
    /\ \E r \in Slots : slots[r].pc = "idle"

\* C10: the update step of a PUT taken after the user was deleted changes no
\* user and answers 404, and a uuid enters the store only with the success
\* response of a POST /users that returns it.
C10_PutDoesNotResurrect ==
    /\ [][\A r \in Slots :
            (Stepped(r) /\ slots[r].pc = "put_users_update"
             /\ UserByUuid(slots[r].req.uuid) = {})
            => (/\ Answered(r)
                /\ users' = users
                /\ sent'.status = 404
                /\ sent'.body.success = FALSE)]_vars
    /\ [][\A u \in users' :
            UserByUuid(u.uuid) = {}
            => (/\ sent'.at = "post_users_create"
                /\ sent'.status = 200
                /\ sent'.body.data = u)]_vars

\* C10 witness: a DELETE took effect between a PUT's findFirst and its
\* update, and the PUT was answered 404 with the user still gone.
C10_PutLostRaceWithDelete ==
    /\ sent.at = "put_users_update"
    /\ sent.threw = "RecordNotFound"
    /\ sent.status = 404
    /\ users = {}

====
